---- MODULE Spec2Model ----
(***************************************************************************)
(* A model of finder (src/main.rs): a multi-pattern line search over the   *)
(* regular files below a list of roots, scanned by a pool of parallel      *)
(* workers that merge their matches into one mutex-guarded result vector.  *)
(*                                                                         *)
(* Text is a sequence of code points and a file is a sequence of bytes.    *)
(* Two specifications share the operators below:                          *)
(*   Spec      run_app, from load_patterns to the Reporter, with the       *)
(*             per-file closures of par_iter().for_each interleaved;       *)
(*   FileSpec  search_in_file_streaming applied to one file, over every    *)
(*             byte content and every matcher list within the bounds.      *)
(***************************************************************************)
EXTENDS Integers, Sequences, FiniteSets, Bags, TLC

(***************************************************************************)
(* Bounds of the model.                                                    *)
(***************************************************************************)
\* largest number of entries of args.paths
MaxRoots == 2
\* largest size of the rayon thread pool
MaxWorkers == 2
\* largest number of bytes of a file in FileSpec
MaxLen == 4
\* largest number of matchers in FileSpec
MaxRegexes == 2

(***************************************************************************)
(* Characters and bytes.                                                   *)
(***************************************************************************)
LF == 10
CR == 13
LParen == 40
RParen == 41
UpperA == 65
LowerA == 97
LowerB == 98
Replacement == 65533
Space == 32

Range(s) == {s[i] : i \in DOMAIN s}

Min(S) == CHOOSE x \in S : \A y \in S : x <= y

\* the multiset of the elements of a sequence
BagOfSeq(s) == [e \in Range(s) |-> Cardinality({i \in DOMAIN s : s[i] = e})]

\* every sequence over S of length lo..hi
SeqsOf(S, lo, hi) == UNION {[1..n -> S] : n \in lo..hi}

\* b is s[i..] 's prefix
StartsAt(s, i, b) ==
    /\ i + Len(b) - 1 <= Len(s)
    /\ \A k \in 1..Len(b) : s[i + k - 1] = b[k]

StartsWith(s, b) == StartsAt(s, 1, b)

Drop(s, n) == SubSeq(s, n + 1, Len(s))

(***************************************************************************)
(* Decoder: Encoding::for_bom and Encoding::decode of encoding_rs.         *)
(***************************************************************************)
BomSampleSize == 4096

Utf8Bom == <<239, 187, 191>>
Utf16LeBom == <<255, 254>>
Utf16BeBom == <<254, 255>>

\* Encoding::for_bom: the encoding a byte-order mark names and the mark's
\* length; "none" when the bytes start with no mark
ForBom(bytes) ==
    IF StartsWith(bytes, Utf8Bom) THEN [encoding |-> "UTF-8", bom_len |-> 3]
    ELSE IF StartsWith(bytes, Utf16LeBom) THEN [encoding |-> "UTF-16LE", bom_len |-> 2]
    ELSE IF StartsWith(bytes, Utf16BeBom) THEN [encoding |-> "UTF-16BE", bom_len |-> 2]
    ELSE [encoding |-> "none", bom_len |-> 0]

\* windows-1252, bytes 0x80..0x9F
W1252High ==
    <<8364, 129, 8218, 402, 8222, 8230, 8224, 8225, 710, 8240, 352, 8249, 338,
      141, 381, 143, 144, 8216, 8217, 8220, 8221, 8226, 8211, 8212, 732, 8482,
      353, 8250, 339, 157, 382, 376>>

DecodeW1252(bytes) ==
    [i \in 1..Len(bytes) |->
        IF bytes[i] >= 128 /\ bytes[i] <= 159 THEN W1252High[bytes[i] - 127]
        ELSE bytes[i]]

\* UTF-8: the number of continuation bytes a lead byte asks for (0: the byte
\* is no lead byte) and the interval its first continuation byte must lie in
Utf8Need(c) ==
    IF c >= 194 /\ c <= 223 THEN 1
    ELSE IF c >= 224 /\ c <= 239 THEN 2
    ELSE IF c >= 240 /\ c <= 244 THEN 3
    ELSE 0

Utf8Lo(c) == IF c = 224 THEN 160 ELSE IF c = 240 THEN 144 ELSE 128

Utf8Hi(c) == IF c = 237 THEN 159 ELSE IF c = 244 THEN 143 ELSE 191

\* how many of the bytes after the lead byte bytes[1] continue its sequence
RECURSIVE Utf8Cont(_, _)
Utf8Cont(bytes, k) ==
    IF k > Utf8Need(bytes[1]) \/ k + 1 > Len(bytes) THEN k - 1
    ELSE LET b == bytes[k + 1]
             lo == IF k = 1 THEN Utf8Lo(bytes[1]) ELSE 128
             hi == IF k = 1 THEN Utf8Hi(bytes[1]) ELSE 191
         IN IF b >= lo /\ b <= hi THEN Utf8Cont(bytes, k + 1) ELSE k - 1

Utf8Scalar(bytes, need) ==
    IF need = 1 THEN (bytes[1] - 192) * 64 + (bytes[2] - 128)
    ELSE IF need = 2
        THEN (bytes[1] - 224) * 4096 + (bytes[2] - 128) * 64 + (bytes[3] - 128)
    ELSE (bytes[1] - 240) * 262144 + (bytes[2] - 128) * 4096
            + (bytes[3] - 128) * 64 + (bytes[4] - 128)

RECURSIVE DecodeUtf8(_)
DecodeUtf8(bytes) ==
    IF bytes = <<>> THEN <<>>
    ELSE IF bytes[1] < 128 THEN <<bytes[1]>> \o DecodeUtf8(Drop(bytes, 1))
    ELSE IF Utf8Need(bytes[1]) = 0 THEN <<Replacement>> \o DecodeUtf8(Drop(bytes, 1))
    ELSE LET need == Utf8Need(bytes[1])
             got == Utf8Cont(bytes, 1)
         IN IF got = need
            THEN <<Utf8Scalar(bytes, need)>> \o DecodeUtf8(Drop(bytes, 1 + need))
            ELSE <<Replacement>> \o DecodeUtf8(Drop(bytes, 1 + got))

Utf16Unit(bytes, i, be) ==
    IF be THEN bytes[i] * 256 + bytes[i + 1] ELSE bytes[i + 1] * 256 + bytes[i]

IsLeadSurrogate(u) == u >= 55296 /\ u <= 56319

IsTrailSurrogate(u) == u >= 56320 /\ u <= 57343

RECURSIVE DecodeUtf16(_, _)
DecodeUtf16(bytes, be) ==
    IF bytes = <<>> THEN <<>>
    ELSE IF Len(bytes) = 1 THEN <<Replacement>>
    ELSE LET u == Utf16Unit(bytes, 1, be)
         IN IF IsLeadSurrogate(u)
            THEN IF Len(bytes) < 4 THEN <<Replacement>>
                 ELSE LET t == Utf16Unit(bytes, 3, be)
                      IN IF IsTrailSurrogate(t)
                         THEN <<65536 + (u - 55296) * 1024 + (t - 56320)>>
                                  \o DecodeUtf16(Drop(bytes, 4), be)
                         ELSE <<Replacement>> \o DecodeUtf16(Drop(bytes, 2), be)
            ELSE IF IsTrailSurrogate(u)
                 THEN <<Replacement>> \o DecodeUtf16(Drop(bytes, 2), be)
            ELSE <<u>> \o DecodeUtf16(Drop(bytes, 2), be)

\* Encoding::decode_without_bom_handling: malformed sequences become U+FFFD
DecodeWithoutBomHandling(encoding, bytes) ==
    IF encoding = "UTF-8" THEN DecodeUtf8(bytes)
    ELSE IF encoding = "UTF-16LE" THEN DecodeUtf16(bytes, FALSE)
    ELSE IF encoding = "UTF-16BE" THEN DecodeUtf16(bytes, TRUE)
    ELSE DecodeW1252(bytes)

\* Encoding::decode: a byte-order mark at the start of the bytes it is given
\* overrides the encoding it is called on, and is removed
EncodingDecode(encoding, bytes) ==
    LET bom == ForBom(bytes)
    IN IF bom.encoding = "none" THEN DecodeWithoutBomHandling(encoding, bytes)
       ELSE DecodeWithoutBomHandling(bom.encoding, Drop(bytes, bom.bom_len))

\* main.rs 64-67: the decoded content of a file's bytes
DecodeBuffer(buffer) ==
    LET bom_sample_size == IF Len(buffer) < BomSampleSize THEN Len(buffer) ELSE BomSampleSize
        bom == ForBom(SubSeq(buffer, 1, bom_sample_size))
        encoding == IF bom.encoding = "none" THEN "windows-1252" ELSE bom.encoding
    IN EncodingDecode(encoding, Drop(buffer, bom.bom_len))

(***************************************************************************)
(* str::lines: the pieces that end at each LF (split_inclusive), each      *)
(* without its LF and, when it had one, without a CR before that LF.       *)
(***************************************************************************)
\* the index of the first LF of s, or Len(s) when s holds none
FirstLineEnd(s) ==
    IF \E i \in DOMAIN s : s[i] = LF THEN Min({i \in DOMAIN s : s[i] = LF}) ELSE Len(s)

RECURSIVE SplitInclusive(_)
SplitInclusive(s) ==
    IF s = <<>> THEN <<>>
    ELSE <<SubSeq(s, 1, FirstLineEnd(s))>> \o SplitInclusive(Drop(s, FirstLineEnd(s)))

\* as StripLineEnding, but only the LF is removed
StripLineFeedOnly(piece) ==
    IF piece # <<>> /\ piece[Len(piece)] = LF
    THEN SubSeq(piece, 1, Len(piece) - 1)
    ELSE piece

StripLineEnding(piece) ==
    IF piece # <<>> /\ piece[Len(piece)] = LF
    THEN LET line == SubSeq(piece, 1, Len(piece) - 1)
         IN IF line # <<>> /\ line[Len(line)] = CR
            THEN SubSeq(line, 1, Len(line) - 1)
            ELSE line
    ELSE piece

Lines(s) ==
    LET pieces == SplitInclusive(s)
    IN [i \in 1..Len(pieces) |-> StripLineEnding(pieces[i])]

(***************************************************************************)
(* Matchers.  The patterns of the model are the regular expressions made   *)
(* of literal characters and groups: RegexBuilder::build refuses a pattern *)
(* whose parentheses do not balance, and a pattern that builds matches a   *)
(* line when its literal text occurs in the line (Regex::is_match is       *)
(* unanchored), letters compared without case under case_insensitive.      *)
(***************************************************************************)
\* the group depth after pattern[i..], or -1 once a group is closed that
\* was never opened
RECURSIVE GroupDepth(_, _, _)
GroupDepth(pattern, i, depth) ==
    IF i > Len(pattern) THEN depth
    ELSE IF pattern[i] = LParen THEN GroupDepth(pattern, i + 1, depth + 1)
    ELSE IF pattern[i] = RParen
        THEN IF depth = 0 THEN -1 ELSE GroupDepth(pattern, i + 1, depth - 1)
    ELSE GroupDepth(pattern, i + 1, depth)

\* RegexBuilder::new(p).case_insensitive(ci).build(): a Regex, or the error
RegexBuild(p, ci) ==
    IF GroupDepth(p, 1, 0) = 0
    THEN [ok |-> TRUE, regex |-> [pattern |-> p, ci |-> ci]]
    ELSE [ok |-> FALSE, regex |-> [pattern |-> p, ci |-> ci]]

\* simple case folding of the ASCII and Latin-1 letters
Fold(c) ==
    IF c >= 65 /\ c <= 90 THEN c + 32
    ELSE IF c >= 192 /\ c <= 222 /\ c # 215 THEN c + 32
    ELSE c

\* the literal text of a pattern: its characters without the group marks
RECURSIVE Literal(_)
Literal(pattern) ==
    IF pattern = <<>> THEN <<>>
    ELSE IF pattern[1] \in {LParen, RParen} THEN Literal(Drop(pattern, 1))
    ELSE <<pattern[1]>> \o Literal(Drop(pattern, 1))

\* Regex::is_match
IsMatch(re, line) ==
    LET lit == Literal(re.pattern)
        eq(a, b) == IF re.ci THEN Fold(a) = Fold(b) ELSE a = b
    IN \E start \in 1..(Len(line) + 1) :
          /\ start + Len(lit) - 1 <= Len(line)
          /\ \A k \in 1..Len(lit) : eq(line[start + k - 1], lit[k])

\* Regex::as_str: the pattern text the matcher was built from
AsStr(re) == re.pattern

(***************************************************************************)
(* search_in_file_streaming, main.rs 59-84.                                *)
(***************************************************************************)
\* as FirstMatchFrom, but without the break: the last matcher that matches
RECURSIVE LastMatchFrom(_, _, _)
LastMatchFrom(line, regexes, j) ==
    IF j > Len(regexes) THEN 0
    ELSE LET later == LastMatchFrom(line, regexes, j + 1)
         IN IF later # 0 THEN later
            ELSE IF IsMatch(regexes[j], line) THEN j
            ELSE 0

\* main.rs 71-81: the first matcher, from the j-th on, that matches the
\* line; 0 when none does
RECURSIVE FirstMatchFrom(_, _, _)
FirstMatchFrom(line, regexes, j) ==
    IF j > Len(regexes) THEN 0
    ELSE IF IsMatch(regexes[j], line) THEN j
    ELSE FirstMatchFrom(line, regexes, j + 1)

\* main.rs 70-82: the records of lines[index + 1 ..]
RECURSIVE SearchLines(_, _, _, _)
SearchLines(path, lines, regexes, index) ==
    IF index >= Len(lines) THEN <<>>
    ELSE LET line == lines[index + 1]
             j == FirstMatchFrom(line, regexes, 1)
             rest == SearchLines(path, lines, regexes, index + 1)
         IN IF j = 0 THEN rest
            ELSE <<[path |-> path,
                    line_number |-> index + 1,
                    line |-> line,
                    pattern |-> AsStr(regexes[j])]>> \o rest

\* main.rs 64-83: the records of a file whose bytes were read
SearchBuffer(path, buffer, regexes) ==
    SearchLines(path, Lines(DecodeBuffer(buffer)), regexes, 0)

(***************************************************************************)
(* compile_regex_with_cache, main.rs 86-100.                               *)
(***************************************************************************)
\* the map over patterns[i..], collected into a Result: the first pattern
\* that does not build ends it.  cache is the set of keys inserted so far,
\* built the sequence of patterns handed to RegexBuilder.
RECURSIVE CompileFrom(_, _, _, _, _, _)
CompileFrom(patterns, ignore_case, i, cache, regexes, built) ==
    IF i > Len(patterns) THEN [ok |-> TRUE, regexes |-> regexes, built |-> built]
    ELSE LET cache_key == <<patterns[i], ignore_case>>
         IN IF cache_key \in DOMAIN cache
            THEN CompileFrom(patterns, ignore_case, i + 1, cache,
                             Append(regexes, cache[cache_key]), built)
            ELSE LET r == RegexBuild(patterns[i], ignore_case)
                 IN IF ~r.ok
                    THEN [ok |-> FALSE, regexes |-> <<>>,
                          built |-> Append(built, patterns[i])]
                    ELSE CompileFrom(patterns, ignore_case, i + 1,
                                     (cache_key :> r.regex) @@ cache,
                                     Append(regexes, r.regex),
                                     Append(built, patterns[i]))

\* as CompileRegexWithCache, but a pattern that does not build is left out
CompileSkippingInvalid(patterns, ignore_case) ==
    LET valid == SelectSeq(patterns, LAMBDA p : RegexBuild(p, ignore_case).ok)
    IN CompileFrom(valid, ignore_case, 1, <<>>, <<>>, <<>>)

\* as CompileRegexWithCache, but a repeated pattern yields no second matcher
CompileOnceEach(patterns, ignore_case) ==
    LET first == SelectSeq([i \in 1..Len(patterns) |-> i],
                           LAMBDA i : \A j \in 1..(i - 1) : patterns[j] # patterns[i])
    IN CompileFrom([k \in 1..Len(first) |-> patterns[first[k]]],
                   ignore_case, 1, <<>>, <<>>, <<>>)

CompileRegexWithCache(patterns, ignore_case) ==
    CompileFrom(patterns, ignore_case, 1, <<>>, <<>>, <<>>)

(***************************************************************************)
(* The file system the program runs on.  The directory tree is fixed:      *)
(*     d/.hid   d/f1   d/s/f2   e/.hid                                      *)
(* d/f1 is also passed as a root of its own, "x" names nothing, p1 and p2  *)
(* are pattern files.  The variable files maps every regular file to its   *)
(* bytes; unreadable holds the files whose open or read fails.             *)
(***************************************************************************)
\* Option<T>: None is the empty sequence and Some(x) the sequence <<x>>
None == <<>>

Some(x) == <<x>>

Dirs == {"d", "d/s", "e"}

\* the entries of a directory, in the order read_dir yields them (the order
\* is the file system's; the model fixes one, and no claim depends on it)
DirEntries(dir) ==
    IF dir = "d" THEN <<"d/.hid", "d/f1", "d/s">>
    ELSE IF dir = "d/s" THEN <<"d/s/f2">>
    ELSE IF dir = "e" THEN <<"e/.hid">>
    ELSE <<>>

Hidden(path) == path \in {"d/.hid", "e/.hid"}

Text_ab_a_b == <<LowerA, LowerB, LF, LowerA, CR, LF, LowerB>>

TreeFiles ==
    [path \in {"d/.hid", "d/f1", "d/s/f2", "e/.hid", "p1", "p2"} |->
        IF path = "d/f1" THEN Text_ab_a_b
        ELSE IF path = "d/s/f2" THEN <<UpperA, LF>>
        ELSE IF path = "p1" THEN <<LowerA, LF, LowerB>>
        ELSE IF path = "p2" THEN <<LowerB, LF, LParen, LF>>
        ELSE <<LowerA, LowerB>>]

\* what args.paths is drawn from
Roots == {"d", "d/s", "d/f1", "e", "x"}

VARIABLES
    args,             \* Args: pattern, input_file, paths, stat, ignore_case, output
    nworkers,         \* the size of the rayon thread pool
    files,            \* the regular files and their bytes
    unreadable,       \* the files that cannot be opened or read
    pc,               \* where run_app is
    outcome,          \* how run_app ended: "Ok", "Err", "Exit1"; "none" before
    patterns,         \* run_app's patterns
    regexes,          \* run_app's regexes
    valid_paths,      \* run_app's valid_paths
    invalid_paths,    \* run_app's invalid_paths
    files_to_search,  \* run_app's files_to_search
    tpc,              \* where the closure of for_each is, for each item
    search_results,   \* the value search_in_file_streaming returned to each closure
    pb_pos,           \* the position of the progress bar
    pb_lock,          \* the item whose closure holds pb's mutex, or 0
    output_lock,      \* the item whose closure holds output_results' mutex, or 0
    output_results,   \* the vector inside output_results
    reads,            \* how often search_in_file_streaming opened each path
    results,          \* run_app's results, None before line 204
    stderr,           \* the diagnostics written so far, as a bag
    emitted,          \* what the Reporter wrote, in order
    call,             \* FileSpec: the arguments of one call of search_in_file_streaming
    ret               \* FileSpec: what the call returned

vars ==
    <<args, nworkers, files, unreadable, pc, outcome, patterns, regexes,
      valid_paths, invalid_paths, files_to_search, tpc, search_results, pb_pos,
      pb_lock, output_lock, output_results, reads, results, stderr, emitted,
      call, ret>>

envVars == <<args, nworkers, files, unreadable, call, ret>>

startVars == <<patterns, regexes, valid_paths, invalid_paths, files_to_search>>

scanVars ==
    <<tpc, search_results, pb_pos, pb_lock, output_lock, output_results, reads>>

\* Path::exists
Exists(path) == path \in Dirs \/ path \in DOMAIN files

\* what a closure holds before search_in_file_streaming has returned to it
NotReturned == [ok |-> FALSE, results |-> <<>>]

\* as ReadToEnd, but a file that cannot be read counts as an empty file
ReadToEndNoError(path) ==
    IF path \in DOMAIN files /\ path \notin unreadable
    THEN [ok |-> TRUE, buffer |-> files[path]]
    ELSE [ok |-> TRUE, buffer |-> <<>>]

\* fs::File::open and read_to_end: the bytes, or the io::Error
ReadToEnd(path) ==
    IF path \in DOMAIN files /\ path \notin unreadable
    THEN [ok |-> TRUE, buffer |-> files[path]]
    ELSE [ok |-> FALSE, buffer |-> <<>>]

\* search_in_file_streaming, main.rs 59-84
SearchInFileStreaming(path, res) ==
    LET r == ReadToEnd(path)
    IN IF r.ok THEN [ok |-> TRUE, results |-> SearchBuffer(path, r.buffer, res)]
       ELSE [ok |-> FALSE, results |-> <<>>]

\* read_lines_from_file, main.rs 106-117
ReadLinesFromFile(path) ==
    LET r == ReadToEnd(path)
    IN IF r.ok THEN [ok |-> TRUE, lines |-> Lines(DecodeBuffer(r.buffer))]
       ELSE [ok |-> FALSE, lines |-> <<>>]

\* load_patterns, main.rs 119-127
LoadPatternsOf(a) ==
    IF a.pattern # None THEN [ok |-> TRUE, lines |-> <<a.pattern[1]>>]
    ELSE ReadLinesFromFile(a.input_file[1])

\* as PartitionPathsOf, but the second list is not filtered
PartitionPathsKeepAll(paths) ==
    [valid |-> SelectSeq(paths, Exists),
     invalid |-> paths]

\* partition_paths, main.rs 102-104
PartitionPathsOf(paths) ==
    [valid |-> SelectSeq(paths, Exists),
     invalid |-> SelectSeq(paths, LAMBDA p : ~Exists(p))]

\* WalkBuilder: the files below one root, depth first; the root itself is
\* yielded whatever its name, the hidden entries below it are skipped
RECURSIVE WalkPath(_)
RECURSIVE WalkEntries(_, _)
WalkPath(path) ==
    IF path \in Dirs THEN WalkEntries(DirEntries(path), 1)
    ELSE IF path \in DOMAIN files THEN <<path>>
    ELSE <<>>

WalkEntries(entries, i) ==
    IF i > Len(entries) THEN <<>>
    ELSE (IF Hidden(entries[i]) THEN <<>> ELSE WalkPath(entries[i]))
             \o WalkEntries(entries, i + 1)

\* main.rs 151-162: the walk over all the roots, one after the other
RECURSIVE WalkRoots(_, _)
WalkRoots(roots, i) ==
    IF i > Len(roots) THEN <<>>
    ELSE WalkPath(roots[i]) \o WalkRoots(roots, i + 1)

AddDiag(bag, d) == bag (+) SetToBag({d})

RECURSIVE AddDiags(_, _, _)
AddDiags(bag, kind, paths) ==
    IF paths = <<>> THEN bag
    ELSE AddDiags(AddDiag(bag, [kind |-> kind, path |-> paths[1]]), kind, Drop(paths, 1))

(***************************************************************************)
(* The Reporter's text: str::trim and the four fields of an output line.   *)
(***************************************************************************)
\* char::is_whitespace
IsWhitespace(c) ==
    \/ c >= 9 /\ c <= 13
    \/ c \in {32, 133, 160, 5760, 8232, 8233, 8239, 8287, 12288}
    \/ c >= 8192 /\ c <= 8202

RECURSIVE TrimStart(_)
TrimStart(s) ==
    IF s # <<>> /\ IsWhitespace(s[1]) THEN TrimStart(Drop(s, 1)) ELSE s

RECURSIVE TrimEnd(_)
TrimEnd(s) ==
    IF s # <<>> /\ IsWhitespace(s[Len(s)]) THEN TrimEnd(SubSeq(s, 1, Len(s) - 1)) ELSE s

Trim(s) == TrimEnd(TrimStart(s))

\* as OutputLine, but only the leading whitespace is removed
OutputLineTrimStart(result) ==
    [path |-> result.path,
     line_number |-> result.line_number,
     pattern |-> result.pattern,
     text |-> TrimStart(result.line)]

\* main.rs 210-217 and 227-233: the line written for one record
OutputLine(result) ==
    [path |-> result.path,
     line_number |-> result.line_number,
     pattern |-> result.pattern,
     text |-> Trim(result.line)]

\* main.rs 237-247: the numbers of the statistics block
Statistics(rs) ==
    [total_matches |-> Len(rs),
     files_with_matches |-> Cardinality({rs[i].path : i \in DOMAIN rs})]

(***************************************************************************)
(* Spec: run_app.                                                          *)
(***************************************************************************)
\* the pattern options of the runs: -p a, -p a -i, -p (, -f p1, -f p2, -f nofile
PatternSources ==
    {[pattern |-> Some(<<LowerA>>), input_file |-> None, ignore_case |-> FALSE],
     [pattern |-> Some(<<LowerA>>), input_file |-> None, ignore_case |-> TRUE],
     [pattern |-> Some(<<LParen>>), input_file |-> None, ignore_case |-> FALSE],
     [pattern |-> None, input_file |-> Some("p1"), ignore_case |-> FALSE],
     [pattern |-> None, input_file |-> Some("p2"), ignore_case |-> FALSE],
     [pattern |-> None, input_file |-> Some("nofile"), ignore_case |-> FALSE]}

\* the Reporter's options of the runs: none, -s, -o FILE
ReportModes ==
    {[stat |-> FALSE, output |-> FALSE],
     [stat |-> TRUE, output |-> FALSE],
     [stat |-> FALSE, output |-> TRUE]}

ArgsSet ==
    {[pattern |-> src.pattern, input_file |-> src.input_file, paths |-> paths,
      stat |-> mode.stat, ignore_case |-> src.ignore_case, output |-> mode.output] :
        src \in PatternSources, paths \in SeqsOf(Roots, 0, MaxRoots),
        mode \in ReportModes}

Idle ==
    /\ pc = "load"
    /\ outcome = "none"
    /\ patterns = <<>>
    /\ regexes = <<>>
    /\ valid_paths = <<>>
    /\ invalid_paths = <<>>
    /\ files_to_search = <<>>
    /\ tpc = <<>>
    /\ search_results = <<>>
    /\ pb_pos = 0
    /\ pb_lock = 0
    /\ output_lock = 0
    /\ output_results = <<>>
    /\ reads = EmptyBag
    /\ results = None
    /\ stderr = EmptyBag
    /\ emitted = <<>>

Init ==
    /\ args \in ArgsSet
    /\ nworkers \in 1..MaxWorkers
    /\ files = TreeFiles
    /\ unreadable \in {{}, {"d/s/f2"}}
    /\ call = None
    /\ ret = None
    /\ Idle

Fail(kind) ==
    /\ outcome' = kind
    /\ pc' = "done"

\* main.rs 132
LoadPatterns ==
    /\ pc = "load"
    /\ LET r == LoadPatternsOf(args)
       IN IF r.ok
          THEN /\ patterns' = r.lines
               /\ pc' = "compile"
               /\ UNCHANGED outcome
          ELSE /\ Fail("Err")
               /\ UNCHANGED patterns
    /\ UNCHANGED <<envVars, regexes, valid_paths, invalid_paths, files_to_search,
                   scanVars, results, stderr, emitted>>

\* main.rs 133
Compile ==
    /\ pc = "compile"
    /\ LET r == CompileRegexWithCache(patterns, args.ignore_case)
       IN IF r.ok
          THEN /\ regexes' = r.regexes
               /\ pc' = "partition"
               /\ UNCHANGED outcome
          ELSE /\ Fail("Err")
               /\ UNCHANGED regexes
    /\ UNCHANGED <<envVars, patterns, valid_paths, invalid_paths, files_to_search,
                   scanVars, results, stderr, emitted>>

\* as PartitionPaths, but with the two outcomes of the empty case exchanged
PartitionPathsSwapped ==
    /\ pc = "partition"
    /\ LET p == PartitionPathsOf(args.paths)
           errs == AddDiags(stderr, "no such file or directory", p.invalid)
       IN /\ valid_paths' = p.valid
          /\ invalid_paths' = p.invalid
          /\ IF p.valid = <<>>
             THEN /\ stderr' = AddDiag(errs, [kind |-> "no valid paths", path |-> ""])
                  /\ Fail(IF p.invalid = <<>> THEN "Exit1" ELSE "Ok")
             ELSE /\ stderr' = errs
                  /\ pc' = "walk"
                  /\ UNCHANGED outcome
    /\ UNCHANGED <<envVars, patterns, regexes, files_to_search, scanVars, results,
                   emitted>>

\* as PartitionPaths, but any invalid path ends the run with status 1
PartitionPathsStrict ==
    /\ pc = "partition"
    /\ LET p == PartitionPathsOf(args.paths)
           errs == AddDiags(stderr, "no such file or directory", p.invalid)
       IN /\ valid_paths' = p.valid
          /\ invalid_paths' = p.invalid
          /\ IF p.valid = <<>> \/ p.invalid # <<>>
             THEN /\ stderr' = AddDiag(errs, [kind |-> "no valid paths", path |-> ""])
                  /\ Fail(IF p.invalid = <<>> THEN "Ok" ELSE "Exit1")
             ELSE /\ stderr' = errs
                  /\ pc' = "walk"
                  /\ UNCHANGED outcome
    /\ UNCHANGED <<envVars, patterns, regexes, files_to_search, scanVars, results,
                   emitted>>

\* main.rs 135-149
PartitionPaths ==
    /\ pc = "partition"
    /\ LET p == PartitionPathsOf(args.paths)
           errs == AddDiags(stderr, "no such file or directory", p.invalid)
       IN /\ valid_paths' = p.valid
          /\ invalid_paths' = p.invalid
          /\ IF p.valid = <<>>
             THEN /\ stderr' = AddDiag(errs, [kind |-> "no valid paths", path |-> ""])
                  /\ Fail(IF p.invalid = <<>> THEN "Ok" ELSE "Exit1")
             ELSE /\ stderr' = errs
                  /\ pc' = "walk"
                  /\ UNCHANGED outcome
    /\ UNCHANGED <<envVars, patterns, regexes, files_to_search, scanVars, results,
                   emitted>>

\* main.rs 151-178
EnumerateFiles ==
    /\ pc = "walk"
    /\ LET found == WalkRoots(valid_paths, 1)
       IN /\ files_to_search' = found
          /\ IF found = <<>>
             THEN /\ emitted' = <<[kind |-> "no files to search"]>>
                  /\ Fail("Ok")
                  /\ UNCHANGED <<tpc, search_results>>
             ELSE /\ tpc' = [i \in 1..Len(found) |-> "pending"]
                  /\ search_results' = [i \in 1..Len(found) |-> NotReturned]
                  /\ pc' = "scan"
                  /\ UNCHANGED <<emitted, outcome>>
    /\ UNCHANGED <<envVars, patterns, regexes, valid_paths, invalid_paths, pb_pos,
                   pb_lock, output_lock, output_results, reads, results, stderr>>

Items == DOMAIN tpc

InFlight == {i \in Items : tpc[i] \notin {"pending", "done"}}

\* as TaskLockPb, but the bar is not advanced for a file that cannot be read
TaskLockPbSkipUnreadable(i) ==
    /\ pc = "scan"
    /\ tpc[i] = "pending"
    /\ Cardinality(InFlight) < nworkers
    /\ pb_lock = 0
    /\ pb_lock' = i
    /\ pb_pos' = IF files_to_search[i] \in unreadable THEN pb_pos ELSE pb_pos + 1
    /\ tpc' = [tpc EXCEPT ![i] = "unlock_pb"]
    /\ UNCHANGED <<envVars, pc, outcome, startVars, search_results, output_lock,
                   output_results, reads, results, stderr, emitted>>

\* main.rs 180-183: a thread of the pool takes an item of par_iter and
\* enters the closure, which takes pb's mutex and advances the bar under
\* it.  A closure that waits for the mutex has done nothing yet: it enters
\* the model when it gets the mutex.
TaskLockPb(i) ==
    /\ pc = "scan"
    /\ tpc[i] = "pending"
    /\ Cardinality(InFlight) < nworkers
    /\ pb_lock = 0
    /\ pb_lock' = i
    /\ pb_pos' = pb_pos + 1
    /\ tpc' = [tpc EXCEPT ![i] = "unlock_pb"]
    /\ UNCHANGED <<envVars, pc, outcome, startVars, search_results, output_lock,
                   output_results, reads, results, stderr, emitted>>

\* as TaskUnlockPb, but the guard of pb is kept while the file is searched
TaskUnlockPbKeep(i) ==
    /\ tpc[i] = "unlock_pb"
    /\ tpc' = [tpc EXCEPT ![i] = "search"]
    /\ UNCHANGED <<envVars, pc, outcome, startVars, search_results, pb_pos, pb_lock,
                   output_lock, output_results, reads, results, stderr, emitted>>

\* main.rs 184
TaskUnlockPb(i) ==
    /\ tpc[i] = "unlock_pb"
    /\ pb_lock' = 0
    /\ tpc' = [tpc EXCEPT ![i] = "search"]
    /\ UNCHANGED <<envVars, pc, outcome, startVars, search_results, pb_pos,
                   output_lock, output_results, reads, results, stderr, emitted>>

\* as TaskSearch, but the closure goes on to the result vector's mutex even
\* when the file gave no match
TaskSearchAlwaysLock(i) ==
    /\ tpc[i] = "search"
    /\ LET path == files_to_search[i]
           r == SearchInFileStreaming(path, regexes)
       IN /\ search_results' = [search_results EXCEPT ![i] = r]
          /\ reads' = AddDiag(reads, path)
          /\ IF r.ok
             THEN /\ tpc' = [tpc EXCEPT ![i] = "lock_out"]
                  /\ UNCHANGED stderr
             ELSE /\ tpc' = [tpc EXCEPT ![i] = "done"]
                  /\ stderr' = AddDiag(stderr, [kind |-> "failed to read file",
                                                path |-> path])
    /\ UNCHANGED <<envVars, pc, outcome, startVars, pb_pos, pb_lock, output_lock,
                   output_results, results, emitted>>

\* main.rs 186-188 and 193-195
TaskSearch(i) ==
    /\ tpc[i] = "search"
    /\ LET path == files_to_search[i]
           r == SearchInFileStreaming(path, regexes)
       IN /\ search_results' = [search_results EXCEPT ![i] = r]
          /\ reads' = AddDiag(reads, path)
          /\ IF r.ok
             THEN /\ tpc' = [tpc EXCEPT ![i] =
                                IF r.results # <<>> THEN "lock_out" ELSE "done"]
                  /\ UNCHANGED stderr
             ELSE /\ tpc' = [tpc EXCEPT ![i] = "done"]
                  /\ stderr' = AddDiag(stderr, [kind |-> "failed to read file",
                                                path |-> path])
    /\ UNCHANGED <<envVars, pc, outcome, startVars, pb_pos, pb_lock, output_lock,
                   output_results, results, emitted>>

\* as TaskLockOut, but the batch replaces the vector instead of extending it
TaskLockOutOverwrite(i) ==
    /\ tpc[i] = "lock_out"
    /\ output_lock = 0
    /\ output_lock' = i
    /\ output_results' = search_results[i].results
    /\ tpc' = [tpc EXCEPT ![i] = "unlock_out"]
    /\ UNCHANGED <<envVars, pc, outcome, startVars, search_results, pb_pos, pb_lock,
                   reads, results, stderr, emitted>>

\* main.rs 189-190: output_results' mutex is taken and the batch appended under it
TaskLockOut(i) ==
    /\ tpc[i] = "lock_out"
    /\ output_lock = 0
    /\ output_lock' = i
    /\ output_results' = output_results \o search_results[i].results
    /\ tpc' = [tpc EXCEPT ![i] = "unlock_out"]
    /\ UNCHANGED <<envVars, pc, outcome, startVars, search_results, pb_pos, pb_lock,
                   reads, results, stderr, emitted>>

\* as TaskUnlockOut, but the closure returns without dropping the guard
TaskUnlockOutKeep(i) ==
    /\ tpc[i] = "unlock_out"
    /\ tpc' = [tpc EXCEPT ![i] = "done"]
    /\ UNCHANGED <<envVars, pc, outcome, startVars, search_results, pb_pos, pb_lock,
                   output_lock, output_results, reads, results, stderr, emitted>>

\* main.rs 191
TaskUnlockOut(i) ==
    /\ tpc[i] = "unlock_out"
    /\ output_lock' = 0
    /\ tpc' = [tpc EXCEPT ![i] = "done"]
    /\ UNCHANGED <<envVars, pc, outcome, startVars, search_results, pb_pos, pb_lock,
                   output_results, reads, results, stderr, emitted>>

\* as Join, but for_each returns once every item has been taken
JoinEarly ==
    /\ pc = "scan"
    /\ \A i \in Items : tpc[i] # "pending"
    /\ pb_lock = 0
    /\ results' = Some(output_results)
    /\ pc' = "report"
    /\ UNCHANGED <<envVars, outcome, startVars, scanVars, stderr, emitted>>

\* main.rs 197-204: for_each returns when every closure has returned; the
\* vector is then taken out of its mutex
Join ==
    /\ pc = "scan"
    /\ \A i \in Items : tpc[i] = "done"
    /\ pb_lock = 0
    /\ results' = Some(output_results)
    /\ pc' = "report"
    /\ UNCHANGED <<envVars, outcome, startVars, scanVars, stderr, emitted>>

\* main.rs 206-249
Report ==
    /\ pc = "report"
    /\ emitted' =
          [i \in 1..Len(results[1]) |-> OutputLine(results[1][i])]
              \o (IF args.stat THEN <<Statistics(results[1])>> ELSE <<>>)
    /\ Fail("Ok")
    /\ UNCHANGED <<envVars, startVars, scanVars, results, stderr>>

Next ==
    \/ LoadPatterns
    \/ Compile
    \/ PartitionPaths
    \/ EnumerateFiles
    \/ \E i \in Items : TaskLockPb(i)
    \/ \E i \in Items : TaskUnlockPb(i)
    \/ \E i \in Items : TaskSearch(i)
    \/ \E i \in Items : TaskLockOut(i)
    \/ \E i \in Items : TaskUnlockOut(i)
    \/ Join
    \/ Report

Spec == Init /\ [][Next]_vars

\* the steps of the closures around the two mutexes, and the return of
\* for_each
LockSteps ==
    \/ \E i \in Items : TaskLockPb(i)
    \/ \E i \in Items : TaskUnlockPb(i)
    \/ \E i \in Items : TaskLockOut(i)
    \/ \E i \in Items : TaskUnlockOut(i)
    \/ Join

SearchStep == \E i \in Items : TaskSearch(i)

\* some closure is inside search_in_file_streaming
Searching == \E i \in Items : tpc[i] = "search"

\* the runs of Init without -s and -o: the Reporter's options play no part
\* before the report
FairInit == Init /\ ~args.stat /\ ~args.output

\* run_app under fair scheduling.  rayon runs every item of par_iter on some
\* thread of the pool, a thread that waits for a free mutex gets it, and a
\* call of search_in_file_streaming returns: a step of the scan that can be
\* taken is taken in the end.  The last conjunct is WF_vars(SearchStep)
\* written out: SearchStep can be taken exactly when Searching holds.
FairSpec ==
    /\ FairInit
    /\ [][Next]_vars
    /\ WF_vars(LockSteps)
    /\ ([]<>~Searching \/ []<><<SearchStep>>_vars)

(***************************************************************************)
(* FileSpec: one call of search_in_file_streaming, on a file "t" of any    *)
(* bytes of FileAlphabet and with any list of the matchers FileRegexes.    *)
(***************************************************************************)
FileAlphabet == {UpperA, LowerB, LF, CR}

FileRegexes ==
    {[pattern |-> <<LowerA>>, ci |-> TRUE],
     [pattern |-> <<LowerB>>, ci |-> FALSE],
     [pattern |-> <<>>, ci |-> FALSE]}

NoArgs ==
    [pattern |-> None, input_file |-> None, paths |-> <<>>, stat |-> FALSE,
     ignore_case |-> FALSE, output |-> FALSE]

FileInit ==
    /\ \E buffer \in SeqsOf(FileAlphabet, 0, MaxLen) : files = ("t" :> buffer)
    /\ unreadable \in {{}, {"t"}}
    /\ \E rs \in SeqsOf(FileRegexes, 0, MaxRegexes) :
          call = Some([path |-> "t", regexes |-> rs])
    /\ ret = None
    /\ args = NoArgs
    /\ nworkers = 1
    /\ Idle

FileSearch ==
    /\ call # None
    /\ ret = None
    /\ ret' = Some(SearchInFileStreaming(call[1].path, call[1].regexes))
    /\ UNCHANGED <<args, nworkers, files, unreadable, call, pc, outcome, startVars,
                   scanVars, results, stderr, emitted>>

FileNext == FileSearch

FileSpec == FileInit /\ [][FileNext]_vars

(***************************************************************************)
(* Claims about the parallel scan (Spec).                                  *)
(***************************************************************************)
\* the scan is over: run_app holds the result vector
Joined == results # None

\* what item i yields when it is scanned alone: the matches of its file, or
\* nothing when the file cannot be read
RECURSIVE SequentialScan(_)
SequentialScan(i) ==
    IF i > Len(files_to_search) THEN <<>>
    ELSE LET path == files_to_search[i]
         IN (IF path \in unreadable THEN <<>>
             ELSE SearchBuffer(path, files[path], regexes))
                \o SequentialScan(i + 1)

\* C1: whatever the number of workers and the interleaving of the closures,
\* the final result vector holds, as a multiset, exactly the matches that
\* search_in_file_streaming returns for the scanned items one by one (the
\* 1-worker, in-order run): nothing lost, nothing duplicated.
C1_NoMatchLostOrDuplicated ==
    Joined => BagOfSeq(results[1]) = BagOfSeq(SequentialScan(1))

\* a 2-worker run over matching files that ends with the batches in
\* another order than the enumeration
C1_Witness ==
    /\ Joined
    /\ nworkers = 2
    /\ Len(results[1]) >= 3
    /\ results[1] # SequentialScan(1)

\* C2: the Reporter sees the result vector only after every closure has
\* returned: whenever run_app holds the vector or something has been
\* written, no item is pending or in flight, no mutex is held and the
\* vector is the complete one.
C2_ReportAfterJoin ==
    (Joined \/ pc = "report" \/ emitted # <<>>) =>
        /\ \A i \in Items : tpc[i] = "done"
        /\ pb_lock = 0 /\ output_lock = 0
        /\ Items # {} => results = Some(output_results)

C2_Witness ==
    /\ pc = "done"
    /\ nworkers = 2
    /\ Len(files_to_search) >= 3
    /\ Len(emitted) >= 3

\* the diagnostic of a failed read
ReadDiag(path) == [kind |-> "failed to read file", path |-> path]

\* C4: a closure whose file cannot be read yields no match and one
\* diagnostic and never touches the result vector; the other closures run
\* to their end, and the run ends Ok with every match of the readable files.
C4_ReadFailureIsolated ==
    /\ \A i \in Items :
          files_to_search[i] \in unreadable =>
              /\ output_lock # i
              /\ tpc[i] \in {"pending", "unlock_pb", "search", "done"}
              /\ tpc[i] = "done" => ~search_results[i].ok
    /\ \A k \in DOMAIN output_results : output_results[k].path \notin unreadable
    /\ \A path \in unreadable :
          CopiesIn(ReadDiag(path), stderr) =
              Cardinality({i \in Items : files_to_search[i] = path /\ tpc[i] = "done"})
    /\ (pc = "done" /\ Items # {}) =>
          /\ outcome = "Ok"
          /\ \A i \in Items : tpc[i] = "done"
          /\ Joined
          /\ \A i \in Items :
                files_to_search[i] \notin unreadable =>
                    \A r \in Range(SearchBuffer(files_to_search[i],
                                                files[files_to_search[i]], regexes)) :
                        r \in Range(results[1])

\* a finished run in which a read failed, a file read after it matched
C4_Witness ==
    /\ pc = "done"
    /\ outcome = "Ok"
    /\ \E i \in Items : ~search_results[i].ok
    /\ CopiesIn(ReadDiag("d/s/f2"), stderr) = 1
    /\ Joined /\ results[1] # <<>>

\* C3 (as claimed): in the final result vector the records of one file are
\* one contiguous block, in strictly increasing line_number order.
C3_OneBlockPerFile ==
    Joined =>
        \A k, l \in DOMAIN results[1] :
            (k < l /\ results[1][k].path = results[1][l].path) =>
                /\ results[1][k].line_number < results[1][l].line_number
                /\ \A m \in k..l : results[1][m].path = results[1][k].path

\* C7 (as claimed): every candidate file is read exactly once, whatever the
\* roots, so that no (file, line) pair is twice in the result vector.
C7_EachFileReadOnce ==
    /\ \A path \in DOMAIN files : CopiesIn(path, reads) <= 1
    /\ Joined =>
          /\ \A i \in Items : CopiesIn(files_to_search[i], reads) = 1
          /\ \A k, l \in DOMAIN results[1] :
                (results[1][k].path = results[1][l].path
                    /\ results[1][k].line_number = results[1][l].line_number) => k = l

(***************************************************************************)
(* Claims about the start of run_app (Spec).                               *)
(***************************************************************************)
\* the patterns are loaded and one of them is no regular expression
InvalidPatternLoaded ==
    /\ pc # "load"
    /\ \E k \in DOMAIN patterns : GroupDepth(patterns[k], 1, 0) # 0

\* nothing of the file system below the roots was looked at and nothing
\* was produced
NothingTouched ==
    /\ valid_paths = <<>> /\ invalid_paths = <<>>
    /\ files_to_search = <<>>
    /\ tpc = <<>>
    /\ reads = EmptyBag
    /\ output_results = <<>>
    /\ results = None
    /\ stderr = EmptyBag
    /\ emitted = <<>>

\* C8: when a pattern of the run is invalid, run_app ends with an error at
\* the compilation: no matcher is kept, no root is checked or walked, no
\* file is read, no match is produced and nothing reaches the Reporter.
C8_InvalidPatternFailsFast ==
    InvalidPatternLoaded =>
        /\ pc \in {"compile", "done"}
        /\ pc = "done" => outcome = "Err"
        /\ regexes = <<>>
        /\ NothingTouched

\* the run of -f p2: a valid pattern followed by an invalid one
C8_Witness ==
    /\ InvalidPatternLoaded
    /\ pc = "done"
    /\ Len(patterns) = 2
    /\ RegexBuild(patterns[1], args.ignore_case).ok
    /\ \E k \in DOMAIN args.paths : Exists(args.paths[k])

\* run_app got past the compilation
PastCompile ==
    pc \in {"walk", "scan", "report"} \/ (pc = "done" /\ outcome # "Err")

NoPathExists == \A k \in DOMAIN args.paths : ~Exists(args.paths[k])

NoScan ==
    /\ files_to_search = <<>>
    /\ tpc = <<>>
    /\ reads = EmptyBag
    /\ output_results = <<>>
    /\ results = None
    /\ emitted = <<>>

\* C9 (as claimed): with no existing path there is no walk, no scan and no
\* result, and the outcome is an error only if no invalid path was given.
C9_EmptyIsErrorOnlyIfNothingInvalid ==
    (PastCompile /\ NoPathExists) =>
        /\ NoScan
        /\ pc = "done"
        /\ outcome # "Ok" => args.paths = <<>>

\* C9 (amended): with no existing path there is no walk, no scan and no
\* result; run_app returns Ok when no path was given at all and exits with
\* status 1 when paths were given and none of them exists.
C9_EmptyIsErrorIffAllInvalid ==
    (PastCompile /\ NoPathExists) =>
        /\ NoScan
        /\ pc = "done"
        /\ outcome = IF args.paths = <<>> THEN "Ok" ELSE "Exit1"

\* the run over the root "x" alone
C9_Witness ==
    /\ PastCompile
    /\ NoPathExists
    /\ args.paths # <<>>
    /\ outcome = "Exit1"

\* the directory an entry lies in
ParentOf(path) == CHOOSE dir \in Dirs : path \in Range(DirEntries(dir))

HasParent(path) == \E dir \in Dirs : path \in Range(DirEntries(dir))

\* path lies below root, no hidden entry on the way
RECURSIVE VisibleBelow(_, _)
VisibleBelow(path, root) ==
    /\ HasParent(path)
    /\ ~Hidden(path)
    /\ ParentOf(path) = root \/ VisibleBelow(ParentOf(path), root)

\* the regular files a walk from root has to find
FilesOfRoot(root) ==
    {f \in DOMAIN files : f = root \/ VisibleBelow(f, root)}

Occurrences(s, x) == Cardinality({k \in DOMAIN s : s[k] = x})

NoSuchFileDiag(path) == [kind |-> "no such file or directory", path |-> path]

\* C10: when one of the roots exists, every entry of args.paths that does
\* not exist gets one diagnostic and stays out of the walk, the files of
\* every existing root are candidates, each of them is read, and run_app
\* ends Ok.
C10_InvalidRootsAreSkipped ==
    (PastCompile /\ ~NoPathExists) =>
        /\ \A x \in Range(args.paths) :
              ~Exists(x) =>
                  /\ CopiesIn(NoSuchFileDiag(x), stderr) = Occurrences(args.paths, x)
                  /\ x \notin Range(valid_paths)
                  /\ pc # "walk" => \A i \in DOMAIN files_to_search :
                                        ~(files_to_search[i] \in FilesOfRoot(x))
        /\ pc # "walk" =>
              \A root \in Range(args.paths) :
                  Exists(root) => FilesOfRoot(root) \subseteq Range(files_to_search)
        /\ pc = "done" =>
              /\ outcome = "Ok"
              /\ \A i \in Items : CopiesIn(files_to_search[i], reads) >= 1

\* the finished run over the roots "x" and "d"
C10_Witness ==
    /\ pc = "done"
    /\ outcome = "Ok"
    /\ \E k \in DOMAIN args.paths : ~Exists(args.paths[k])
    /\ Joined /\ results[1] # <<>>
    /\ CopiesIn(NoSuchFileDiag("x"), stderr) = 1

(***************************************************************************)
(* Claims about search_in_file_streaming (FileSpec).                       *)
(***************************************************************************)
\* the call has returned Ok
Returned == ret # None /\ ret[1].ok

CallText == DecodeBuffer(files[call[1].path])

\* the matchers of the call that match a line
MatchersOf(line) ==
    {j \in DOMAIN call[1].regexes : IsMatch(call[1].regexes[j], line)}

\* the records of the call for line number k
RecordsOf(k) == {n \in DOMAIN ret[1].results : ret[1].results[n].line_number = k}

\* C5: for every list of matchers and every line of the file there is one
\* record when some matcher matches the line and none otherwise, and the
\* record's pattern is the text of the first matcher of the list, in the
\* order given, that matches the line.
C5_FirstMatchingPatternWins ==
    Returned =>
        LET lines == Lines(CallText)
        IN /\ \A k \in DOMAIN lines :
                 /\ Cardinality(RecordsOf(k)) =
                        IF MatchersOf(lines[k]) = {} THEN 0 ELSE 1
                 /\ \A n \in RecordsOf(k) :
                        ret[1].results[n].pattern =
                            call[1].regexes[Min(MatchersOf(lines[k]))].pattern
           /\ \A n \in DOMAIN ret[1].results :
                 ret[1].results[n].line_number \in DOMAIN lines

\* a line that the second matcher matches too, recorded with the first one
C5_Witness ==
    /\ Returned
    /\ Len(call[1].regexes) = 2
    /\ call[1].regexes[1].pattern # call[1].regexes[2].pattern
    /\ \E n \in DOMAIN ret[1].results :
          /\ MatchersOf(ret[1].results[n].line) = {1, 2}
          /\ ret[1].results[n].pattern = call[1].regexes[1].pattern

\* the positions of the line feeds of the text
LineFeeds == {i \in DOMAIN CallText : CallText[i] = LF}

\* the position of the k-th line feed
KthLineFeed(k) ==
    CHOOSE i \in LineFeeds : Cardinality({j \in LineFeeds : j < i}) = k - 1

\* the number of logical lines: one for each line feed, and one more for
\* the text after the last line feed when there is some
LineCount ==
    Cardinality(LineFeeds)
        + (IF CallText # <<>> /\ CallText[Len(CallText)] # LF THEN 1 ELSE 0)

\* the k-th logical line, without its terminator LF or CR LF
LogicalLine(k) ==
    LET first == IF k = 1 THEN 1 ELSE KthLineFeed(k - 1) + 1
        terminated == k <= Cardinality(LineFeeds)
        last == IF terminated THEN KthLineFeed(k) - 1 ELSE Len(CallText)
        crlf == terminated /\ last >= first /\ CallText[last] = CR
    IN SubSeq(CallText, first, IF crlf THEN last - 1 ELSE last)

\* C6: for a text of N logical lines of which M match, the call yields M
\* records, in line order; a record's line_number is the 1-based position
\* of its line and its line is the text of that line without the LF or
\* CR LF that ends it; the empty text after a last terminator is no line.
C6_OneRecordPerMatchingLine ==
    Returned =>
        LET rs == ret[1].results
        IN /\ Len(rs) =
                 Cardinality({k \in 1..LineCount : MatchersOf(LogicalLine(k)) # {}})
           /\ \A n \in DOMAIN rs :
                 /\ rs[n].line_number \in 1..LineCount
                 /\ rs[n].line = LogicalLine(rs[n].line_number)
                 /\ MatchersOf(rs[n].line) # {}
                 /\ rs[n].path = call[1].path
                 /\ n > 1 => rs[n - 1].line_number < rs[n].line_number

\* a text with a CR LF line and a last LF, the first line of which does
\* not match and the second does
C6_Witness ==
    /\ Returned
    /\ \E i \in DOMAIN CallText : i > 1 /\ CallText[i] = LF /\ CallText[i - 1] = CR
    /\ CallText[Len(CallText)] = LF
    /\ LineCount = 2
    /\ Len(ret[1].results) = 1
    /\ ret[1].results[1].line_number = 2

(***************************************************************************)
(* Claims about partition_paths (Spec).                                    *)
(***************************************************************************)
\* C11: the two lists partition_paths returns hold every entry of the input
\* once between them, as often as the input holds it, no path is in both,
\* and a path is in the first list exactly when it exists.
C11_PartitionIsDisjointCover ==
    PastCompile =>
        /\ \A p \in Range(args.paths) :
              /\ Occurrences(valid_paths, p) + Occurrences(invalid_paths, p)
                    = Occurrences(args.paths, p)
              /\ p \in Range(valid_paths) <=> Exists(p)
        /\ Len(valid_paths) + Len(invalid_paths) = Len(args.paths)
        /\ Range(valid_paths) \cap Range(invalid_paths) = {}

\* a partition of an existing and a missing path
C11_Witness ==
    /\ PastCompile
    /\ valid_paths # <<>>
    /\ invalid_paths # <<>>

(***************************************************************************)
(* PatternSpec: load_patterns and compile_regex_with_cache on a pattern    *)
(* file "pf" of any bytes of PatternAlphabet, with and without -i.         *)
(***************************************************************************)
PatternAlphabet == {LowerA, LowerB, LParen, RParen, LF}

PatternArgs ==
    {[pattern |-> None, input_file |-> Some("pf"), paths |-> <<>>, stat |-> FALSE,
      ignore_case |-> ci, output |-> FALSE] : ci \in BOOLEAN}

PatternInit ==
    /\ \E buffer \in SeqsOf(PatternAlphabet, 0, MaxLen) : files = ("pf" :> buffer)
    /\ unreadable \in {{}, {"pf"}}
    /\ args \in PatternArgs
    /\ nworkers = 1
    /\ call = None
    /\ ret = None
    /\ Idle

PatternNext ==
    \/ LoadPatterns
    \/ Compile

PatternSpec == PatternInit /\ [][PatternNext]_vars

(***************************************************************************)
(* Claims about the patterns of a run (PatternSpec).                       *)
(***************************************************************************)
\* load_patterns has returned the lines of the pattern file
PatternsLoaded ==
    /\ pc # "load"
    /\ args.input_file # None
    /\ args.input_file[1] \in DOMAIN files \ unreadable

\* the lines of the pattern file, as the program splits them
PatternFileLines == Lines(DecodeBuffer(files[args.input_file[1]]))

\* C12: the patterns loaded from a pattern file are its non-empty lines, one
\* pattern per such line and in file order; no pattern of the run is empty.
C12_OnePatternPerNonEmptyLine ==
    PatternsLoaded =>
        /\ patterns = SelectSeq(PatternFileLines, LAMBDA l : l # <<>>)
        /\ \A i \in DOMAIN patterns : patterns[i] # <<>>

\* compile_regex_with_cache has returned Ok
Compiled == PatternsLoaded /\ pc = "partition"

\* the matchers of the patterns, each compiled on its own
CompiledIndependently ==
    [i \in DOMAIN patterns |-> RegexBuild(patterns[i], args.ignore_case).regex]

\* C13: the matcher list has the length of the pattern list, its i-th matcher
\* is that of the i-th pattern, repeats included; no pattern text is handed to
\* the regex builder twice; the records of a scan with the list are those of
\* a scan with independently compiled matchers.
C13_CacheKeepsOrderAndCompilesOnce ==
    Compiled =>
        /\ Len(regexes) = Len(patterns)
        /\ \A i \in DOMAIN patterns :
              /\ AsStr(regexes[i]) = patterns[i]
              /\ regexes[i] = CompiledIndependently[i]
        /\ LET built == CompileRegexWithCache(patterns, args.ignore_case).built
           IN \A i, j \in DOMAIN built : i # j => built[i] # built[j]
        /\ SearchLines("pf", PatternFileLines, regexes, 0)
              = SearchLines("pf", PatternFileLines, CompiledIndependently, 0)

C13_Witness ==
    /\ Compiled
    /\ \E i, j \in DOMAIN patterns : i < j /\ patterns[i] = patterns[j]
    /\ \E i, j \in DOMAIN patterns : patterns[i] # patterns[j]

(***************************************************************************)
(* DecodeSpec: one call of search_in_file_streaming on a file "t" that     *)
(* starts with a byte-order mark or with none, followed by any bytes of    *)
(* DecodeAlphabet.  The matcher is the empty pattern, which matches every  *)
(* line and so shows the whole decoded text, or the letter b.              *)
(***************************************************************************)
\* b, LF, NUL (the high byte of both in UTF-16), the UTF-8 sequence C3 A9,
\* and FE, FF: malformed in UTF-8, together a mark of UTF-16
DecodeAlphabet == {LowerB, LF, 0, 195, 169, 254, 255}

DecodePrefixes == {<<>>, Utf8Bom, Utf16LeBom, Utf16BeBom}

DecodeRegexes ==
    {<<[pattern |-> <<>>, ci |-> FALSE]>>,
     <<[pattern |-> <<LowerB>>, ci |-> FALSE]>>}

DecodeInit ==
    /\ \E prefix \in DecodePrefixes, body \in SeqsOf(DecodeAlphabet, 0, MaxLen) :
          files = ("t" :> prefix \o body)
    /\ unreadable \in {{}, {"t"}}
    /\ \E rs \in DecodeRegexes : call = Some([path |-> "t", regexes |-> rs])
    /\ ret = None
    /\ args = NoArgs
    /\ nworkers = 1
    /\ Idle

DecodeSpec == DecodeInit /\ [][FileNext]_vars

(***************************************************************************)
(* Claims about decoding (DecodeSpec).                                     *)
(***************************************************************************)
\* the call has returned from a file that could be read
ReturnedFromReadable == Returned /\ call[1].path \notin unreadable

\* a decoded line that held a malformed byte sequence: no byte sequence of
\* DecodeAlphabet encodes U+FFFD, so the character marks exactly those lines
Malformed(line) == Replacement \in Range(line)

DecodeWarning(path) == [kind |-> "decode", path |-> path]

\* C14: a line with a malformed byte sequence yields no record and is
\* reported with a warning; the call still returns Ok.
C14_MalformedLineSkippedAndWarned ==
    ReturnedFromReadable =>
        /\ ret[1].ok
        /\ \A n \in DOMAIN ret[1].results : ~Malformed(ret[1].results[n].line)
        /\ (\E l \in Range(Lines(DecodeBuffer(files[call[1].path]))) : Malformed(l))
              => CopiesIn(DecodeWarning(call[1].path), stderr) > 0

\* the text of a file under the encoding its mark names, the mark left
\* out, or under windows-1252 when it starts with no mark
DecodedByMark(buffer) ==
    LET bom == ForBom(buffer)
    IN IF bom.encoding = "none" THEN DecodeW1252(buffer)
       ELSE DecodeWithoutBomHandling(bom.encoding, Drop(buffer, bom.bom_len))

\* C15: every readable file yields Ok, and its records are those of its
\* text under the encoding its byte-order mark names, or under windows-1252
\* when it has none.
C15_DecodedByMarkOrFallback ==
    ReturnedFromReadable =>
        /\ ret[1].ok
        /\ ret[1].results
              = SearchLines(call[1].path, Lines(DecodedByMark(files[call[1].path])),
                            call[1].regexes, 0)

\* what does hold whatever the bytes: a readable file yields Ok, and a file
\* that starts with no mark is read as windows-1252
FallbackAndNoFileLevelFailure ==
    ReturnedFromReadable =>
        /\ ret[1].ok
        /\ ForBom(files[call[1].path]).encoding = "none"
              => ret[1].results
                    = SearchLines(call[1].path, Lines(DecodeW1252(files[call[1].path])),
                                  call[1].regexes, 0)

(***************************************************************************)
(* OutputSpec: run_app with -o, on one file "t" of letters, spaces and     *)
(* line ends, given once or twice, with the pattern a or the empty pattern *)
(* (which matches the lines that hold nothing but whitespace as well).     *)
(***************************************************************************)
OutputAlphabet == {LowerA, Space, CR, LF}

OutputArgs ==
    {[pattern |-> Some(p), input_file |-> None, paths |-> paths, stat |-> FALSE,
      ignore_case |-> FALSE, output |-> TRUE] :
        p \in {<<LowerA>>, <<>>}, paths \in {<<"t">>, <<"t", "t">>}}

OutputInit ==
    /\ \E buffer \in SeqsOf(OutputAlphabet, 0, MaxLen) : files = ("t" :> buffer)
    /\ unreadable = {}
    /\ args \in OutputArgs
    /\ nworkers \in 1..MaxWorkers
    /\ call = None
    /\ ret = None
    /\ Idle

OutputSpec == OutputInit /\ [][Next]_vars

(***************************************************************************)
(* Claims about the Reporter (OutputSpec).                                 *)
(***************************************************************************)
\* the output file has been written
Written == pc = "done" /\ outcome = "Ok" /\ args.output /\ results # None

\* text is line without its leading and trailing whitespace: a stretch of
\* line with only whitespace before and after it, that neither starts nor
\* ends with whitespace
IsTrimOf(text, line) ==
    /\ \E i \in 1..(Len(line) + 1) :
          /\ i + Len(text) - 1 <= Len(line)
          /\ text = SubSeq(line, i, i + Len(text) - 1)
          /\ \A k \in 1..(i - 1) : IsWhitespace(line[k])
          /\ \A k \in (i + Len(text))..Len(line) : IsWhitespace(line[k])
    /\ text # <<>> => ~IsWhitespace(text[1]) /\ ~IsWhitespace(text[Len(text)])

\* C16: with -o the Reporter writes one line per record of the result
\* vector, in the vector's order, made of the record's path, line number and
\* pattern and of the record's text without leading and trailing whitespace;
\* no field holds a line feed, so there are as many lines as records.
C16_OneTrimmedLinePerRecord ==
    Written =>
        /\ Len(emitted) = Len(results[1])
        /\ \A n \in DOMAIN emitted :
              /\ emitted[n].path = results[1][n].path
              /\ emitted[n].line_number = results[1][n].line_number
              /\ emitted[n].pattern = results[1][n].pattern
              /\ IsTrimOf(emitted[n].text, results[1][n].line)
              /\ LF \notin Range(emitted[n].text) \cup Range(emitted[n].pattern)

C16_Witness ==
    /\ Written
    /\ Len(emitted) >= 2
    /\ \E n \in DOMAIN emitted :
          /\ emitted[n].text # <<>>
          /\ IsWhitespace(results[1][n].line[1])
          /\ IsWhitespace(results[1][n].line[Len(results[1][n].line)])

(***************************************************************************)
(* Claims about the two mutexes (Spec, FairSpec).                          *)
(***************************************************************************)
\* the closure of item i is inside search_in_file_streaming, or between it
\* and the lock of the result vector
OutsideCriticalSections(i) == tpc[i] \in {"pending", "search", "lock_out", "done"}

\* batch is the end of vector
IsSuffix(batch, vector) ==
    /\ Len(batch) <= Len(vector)
    /\ batch = SubSeq(vector, Len(vector) - Len(batch) + 1, Len(vector))

\* C17: pb's mutex is held only by a closure that has just advanced the bar
\* and is about to drop the guard, the result vector's mutex only by a
\* closure that has just appended its own file's batch; a closure that
\* opens, reads, decodes or matches its file holds neither, and no mutex is
\* held outside the scan.
C17_LocksHeldOnlyForIncrementAndAppend ==
    /\ pb_lock \in Items \cup {0}
    /\ output_lock \in Items \cup {0}
    /\ \A i \in Items :
          /\ pb_lock = i => tpc[i] = "unlock_pb"
          /\ output_lock = i =>
                /\ tpc[i] = "unlock_out"
                /\ search_results[i].results # <<>>
                /\ IsSuffix(search_results[i].results, output_results)
          /\ OutsideCriticalSections(i) => pb_lock # i /\ output_lock # i
    /\ pc # "scan" => pb_lock = 0 /\ output_lock = 0

C17_Witness ==
    \E i, j \in Items :
        /\ i # j
        /\ tpc[i] = "search"
        /\ output_lock = j
        /\ reads = EmptyBag (+) SetToBag({files_to_search[j]})

\* no closure holds both mutexes
NoWorkerHoldsBoth == \A i \in Items : ~(pb_lock = i /\ output_lock = i)

AllTasksDone == \A i \in Items : tpc[i] = "done"

\* C18: no closure ever holds both mutexes, and under fair scheduling a scan
\* that has begun is followed by every closure having returned and run_app
\* being at the report.
C18_ScanTerminates ==
    /\ []NoWorkerHoldsBoth
    /\ (pc = "scan") ~> (pc = "report" /\ AllTasksDone)

\* two closures each hold one of the mutexes while a third item waits
C18_Witness ==
    \E i, j, k \in Items :
        /\ pb_lock = i
        /\ output_lock = j
        /\ tpc[k] = "pending"

(***************************************************************************)
(* Claims about the progress bar and the growth of the result vector       *)
(* (Spec).                                                                 *)
(***************************************************************************)
\* the items whose closure has been entered
Started == {i \in Items : tpc[i] # "pending"}

\* a step that moves the bar moves it by one, and is the step of a closure
\* that takes pb's mutex, which was free
IncrementUnderLock ==
    pb_pos' # pb_pos =>
        /\ pb_pos' = pb_pos + 1
        /\ pb_lock = 0
        /\ pb_lock' \in Items
        /\ tpc[pb_lock'] = "pending"

\* C19: the bar has been advanced once for every closure entered, whether
\* its file could be read or not, and always under pb's mutex; it never
\* exceeds the number of files enumerated and equals it once every closure
\* has returned.
C19_OneIncrementPerFile ==
    /\ [](/\ pb_pos = Cardinality(Started)
          /\ pb_pos <= Len(files_to_search)
          /\ (Joined \/ (pc = "scan" /\ \A i \in Items : tpc[i] = "done"))
                => pb_pos = Len(files_to_search))
    /\ [][IncrementUnderLock]_vars

C19_Witness ==
    /\ Joined
    /\ Len(files_to_search) >= 2
    /\ pb_pos = Len(files_to_search)
    /\ \E i \in Items : files_to_search[i] \in unreadable

IsPrefix(s, t) == Len(s) <= Len(t) /\ s = SubSeq(t, 1, Len(s))

\* the closure of item i returns from search_in_file_streaming with no match
ReturnsEmpty(i) ==
    /\ tpc[i] = "search"
    /\ tpc'[i] # "search"
    /\ search_results'[i].results = <<>>

\* C20: a closure whose file gave no match returns without taking the result
\* vector's mutex and without touching the vector; any step leaves the
\* vector as it was or longer, with the records it held still in front and
\* in their order, and only a closure with a non-empty batch takes the mutex.
C20_VectorOnlyGrows ==
    [][/\ IsPrefix(output_results, output_results')
       /\ \A i \in Items :
             /\ ReturnsEmpty(i) =>
                   /\ tpc'[i] = "done"
                   /\ output_lock' = output_lock
                   /\ output_results' = output_results
             /\ (output_lock # i /\ output_lock' = i) =>
                   /\ search_results[i].results # <<>>
                   /\ output_results' = output_results \o search_results[i].results]_vars

C20_Witness ==
    /\ output_results # <<>>
    /\ output_lock = 0
    /\ \E i \in Items :
          /\ tpc[i] = "done"
          /\ search_results[i].ok
          /\ search_results[i].results = <<>>
          /\ i = Len(files_to_search)

====
